---- MODULE Spec2Model ----
(***************************************************************************)
(* A model of blocks-script's system_lib: the ScriptBase adapter           *)
(* (ScriptBase.js) and the metadata declarators (driver, roleRequired,      *)
(* min, max, resource).                                                    *)
(*                                                                         *)
(* Three specifications share the variables:                               *)
(*   Spec      the ScriptBase adapter in front of a host facade            *)
(*   SpecMeta  the declarators writing reflection metadata                 *)
(*   SpecArr   ScriptBase.makeJSArray over a heap of host objects          *)
(*                                                                         *)
(* Every operation is one atomic action (the code is synchronous and       *)
(* single-threaded).  The calls an operation makes on its collaborators    *)
(* (the facade, the accessor function, Object.defineProperty) are recorded *)
(* in order in `trace`, which holds the calls of the latest operation.     *)
(***************************************************************************)
EXTENDS Integers, Sequences, FiniteSets

VARIABLES
    scriptFacade,   \* this.__scriptFacade, set by the constructor
    shim,           \* the accessor properties defined on the script object
    store,          \* the value behind each accessor function (script state)
    facadeProps,    \* the names the facade has registered
    op,             \* the latest operation called on the script object
    trace,          \* the collaborator calls made by that operation, in order
    result,         \* what that operation gave its caller
    meta,           \* the reflection metadata store
    prevMeta,       \* the metadata store before the latest declarator ran
    decl,           \* the latest declarator application
    nDecl,          \* how many declarators have been applied
    heap,           \* host objects and script arrays, by reference
    arrCall         \* the latest makeJSArray call

sbVars   == <<scriptFacade, shim, store, facadeProps, op, trace, result>>
metaVars == <<meta, prevMeta, decl, nDecl>>
arrVars  == <<heap, arrCall>>
vars     == <<scriptFacade, shim, store, facadeProps, op, trace, result,
              meta, prevMeta, decl, nDecl, heap, arrCall>>

---------------------------------------------------------------------------
(* Bounds *)

MaxVal == 1          \* property values are the numbers 0..MaxVal, and NaN
MaxLen == 2          \* array-likes have at most MaxLen elements
MaxApply == 2        \* at most MaxApply declarator applications
MaxNum == 1          \* @min / @max arguments are 0..MaxNum

---------------------------------------------------------------------------
(* JavaScript values *)

Num(n)    == <<"num", n>>
NaN       == <<"NaN", 0>>
Undefined == <<"undefined", 0>>
Obj(k)    == <<"obj", k>>

Values == {Num(n) : n \in 0..MaxVal} \cup {NaN}

\* a === b on the values above: NaN is not equal to anything, itself included
StrictEquals(a, b) == a = b /\ a # NaN

---------------------------------------------------------------------------
(* The ScriptBase adapter *)

Facades   == {"facadeA", "facadeB"}
Names     == {"p", "q"}
Accessors == {"gsStore", "gsClamp", "gsReject"}
\* the options argument: absent, { readOnly: false }, { readOnly: true }
Options   == {"undefined", "readOnlyFalse", "readOnlyTrue"}
ItemTypes == {"ItemA", "ItemB"}
Events    == {"finish", "change"}
Listeners == {"l1", "l2"}

\* one collaborator call: which function, on which object, its arguments,
\* how it ended and what it returned
Ev(call, on, a1, a2, a3, argc, val, out, ret) ==
    [call |-> call, on |-> on, a1 |-> a1, a2 |-> a2, a3 |-> a3,
     argc |-> argc, val |-> val, out |-> out, ret |-> ret]

\* which collaborator call of an assignment raises: none, the accessor's read,
\* the accessor's write, or the facade's changed
Failures == {"none", "read", "write", "changed"}

Outcome(raises) == IF raises THEN "raise" ELSE "ok"

Return(v) == [out |-> "return", val |-> v]
Throw     == [out |-> "throw", val |-> Undefined]

\* an accessor property of the script object: whether it has a get and a set
\* function, the accessor they close over, and whether the call that defined
\* it was given options.readOnly
NoShim == [getter |-> FALSE, setter |-> FALSE, gs |-> "-", ro |-> FALSE]

\* What the accessor functions of the model do with a written value.  They
\* are script code, not ScriptBase code: one stores what it is given, one
\* clamps numbers to ClampMax, one rejects every write.
ClampMax == MaxVal - 1
AccessorWrite(gs, old, v) ==
    CASE gs = "gsStore"  -> v
      [] gs = "gsClamp"  -> IF v[1] = "num" /\ v[2] > ClampMax THEN Num(ClampMax) ELSE v
      [] gs = "gsReject" -> old

\* gsFunc(): the accessor called with no argument
GsRead(gs, st, raises) ==
    Ev("gsFunc", gs, "-", "-", "-", 0, Undefined, Outcome(raises),
       IF raises THEN Undefined ELSE st[gs])

\* gsFunc(value): the accessor called with the assigned value
GsWrite(gs, st, value, raises) ==
    Ev("gsFunc", gs, "-", "-", "-", 1, value, Outcome(raises),
       IF raises THEN Undefined ELSE AccessorWrite(gs, st[gs], value))

\* the readOnly option never honoured
IsReadOnly_Ignored(options) == FALSE

\* options && options.readOnly
IsReadOnly(options) == options # "undefined" /\ options = "readOnlyTrue"

\* The outcome of one operation: the calls it made, the state it left and
\* what its caller got.
Done(tr, sh, st, fp, res) ==
    [trace |-> tr, shim |-> sh, store |-> st, facadeProps |-> fp, result |-> res]

\* property with the shim defined before the facade is asked
property_ShimFirst(facade, sh, st, fp, name, options, gs, fRaises) ==
    LET reg == Ev("facade.property", facade, name, options, gs, 3, Undefined,
                  Outcome(fRaises), Undefined)
        def(raises) ==
               Ev("defineProperty", "this", name,
                  IF IsReadOnly(options) THEN "get" ELSE "get,set", gs, 3,
                  Undefined, Outcome(raises), Undefined)
        installed == [getter |-> TRUE, setter |-> ~IsReadOnly(options),
                      gs |-> gs, ro |-> options = "readOnlyTrue"]
        sh2 == [sh EXCEPT ![name] = installed]
    IN  IF sh[name].getter
        THEN Done(<<def(TRUE)>>, sh, st, fp, Throw)
        ELSE IF fRaises
        THEN Done(<<def(FALSE), reg>>, sh2, st, fp, Throw)
        ELSE Done(<<def(FALSE), reg>>, sh2, st, fp \cup {name}, Return(Undefined))

\* property with a failure of the facade caught and dropped
property_Swallow(facade, sh, st, fp, name, options, gs, fRaises) ==
    LET reg == Ev("facade.property", facade, name, options, gs, 3, Undefined,
                  Outcome(fRaises), Undefined)
        def(raises) ==
               Ev("defineProperty", "this", name,
                  IF IsReadOnly(options) THEN "get" ELSE "get,set", gs, 3,
                  Undefined, Outcome(raises), Undefined)
        fp2 == IF fRaises THEN fp ELSE fp \cup {name}
        installed == [getter |-> TRUE, setter |-> ~IsReadOnly(options),
                      gs |-> gs, ro |-> options = "readOnlyTrue"]
    IN  IF sh[name].getter
        THEN Done(<<reg, def(TRUE)>>, sh, st, fp2, Throw)
        ELSE Done(<<reg, def(FALSE)>>, [sh EXCEPT ![name] = installed], st, fp2,
                  Return(Undefined))

\* ScriptBase.prototype.property(name, options, gsFunc).  Object.defineProperty
\* defines a non-configurable accessor property, so defining the same name a
\* second time raises a TypeError.
property(facade, sh, st, fp, name, options, gs, fRaises) ==
    LET reg == Ev("facade.property", facade, name, options, gs, 3, Undefined,
                  Outcome(fRaises), Undefined)
        def(raises) ==
               Ev("defineProperty", "this", name,
                  IF IsReadOnly(options) THEN "get" ELSE "get,set", gs, 3,
                  Undefined, Outcome(raises), Undefined)
        fp2 == fp \cup {name}
        installed == [getter |-> TRUE, setter |-> ~IsReadOnly(options),
                      gs |-> gs, ro |-> options = "readOnlyTrue"]
    IN  IF fRaises
        THEN Done(<<reg>>, sh, st, fp, Throw)
        ELSE IF sh[name].getter
        THEN Done(<<reg, def(TRUE)>>, sh, st, fp2, Throw)
        ELSE Done(<<reg, def(FALSE)>>, [sh EXCEPT ![name] = installed], st, fp2,
                  Return(Undefined))

\* the get function of both shims: return gsFunc()
get(sh, st, fp, name, rRaises) ==
    LET r == GsRead(sh[name].gs, st, rRaises)
    IN  Done(<<r>>, sh, st, fp, IF rRaises THEN Throw ELSE Return(r.ret))

\* the set function comparing the old value with the assigned value
set_CompareInput(facade, sh, st, fp, name, value, fails) ==
    LET rRaises == fails = "read"
        wRaises == fails = "write"
        cRaises == fails = "changed"
        gs  == sh[name].gs
        r   == GsRead(gs, st, rRaises)
        w   == GsWrite(gs, st, value, wRaises)
        st2 == [st EXCEPT ![gs] = w.ret]
        c   == Ev("facade.changed", facade, name, "-", "-", 1, Undefined,
                  Outcome(cRaises), Undefined)
    IN  IF rRaises THEN Done(<<r>>, sh, st, fp, Throw)
        ELSE IF wRaises THEN Done(<<r, w>>, sh, st, fp, Throw)
        ELSE IF ~StrictEquals(r.ret, value)
        THEN Done(<<r, w, c>>, sh, st2, fp,
                  IF cRaises THEN Throw ELSE Return(Undefined))
        ELSE Done(<<r, w>>, sh, st2, fp, Return(Undefined))

\* the set function writing first and reading the old value afterwards
set_WriteThenRead(facade, sh, st, fp, name, value, fails) ==
    LET rRaises == fails = "read"
        wRaises == fails = "write"
        cRaises == fails = "changed"
        gs  == sh[name].gs
        w   == GsWrite(gs, st, value, wRaises)
        st2 == [st EXCEPT ![gs] = w.ret]
        r   == GsRead(gs, st2, rRaises)
        c   == Ev("facade.changed", facade, name, "-", "-", 1, Undefined,
                  Outcome(cRaises), Undefined)
    IN  IF wRaises THEN Done(<<w>>, sh, st, fp, Throw)
        ELSE IF rRaises THEN Done(<<w, r>>, sh, st2, fp, Throw)
        ELSE IF ~StrictEquals(r.ret, w.ret)
        THEN Done(<<w, r, c>>, sh, st2, fp,
                  IF cRaises THEN Throw ELSE Return(Undefined))
        ELSE Done(<<w, r>>, sh, st2, fp, Return(Undefined))

\* the set function of the read/write shim
set(facade, sh, st, fp, name, value, fails) ==
    LET rRaises == fails = "read"
        wRaises == fails = "write"
        cRaises == fails = "changed"
        gs  == sh[name].gs
        r   == GsRead(gs, st, rRaises)
        w   == GsWrite(gs, st, value, wRaises)
        st2 == [st EXCEPT ![gs] = w.ret]
        c   == Ev("facade.changed", facade, name, "-", "-", 1, Undefined,
                  Outcome(cRaises), Undefined)
    IN  IF rRaises THEN Done(<<r>>, sh, st, fp, Throw)
        ELSE IF wRaises THEN Done(<<r, w>>, sh, st, fp, Throw)
        ELSE IF ~StrictEquals(r.ret, w.ret)
        THEN Done(<<r, w, c>>, sh, st2, fp,
                  IF cRaises THEN Throw ELSE Return(Undefined))
        ELSE Done(<<r, w>>, sh, st2, fp, Return(Undefined))

\* script.name = value on an accessor property: the set function runs when
\* there is one; without one the assignment does nothing, and raises a
\* TypeError when the assigning code is strict.
assign(facade, sh, st, fp, name, value, fails, strict) ==
    IF sh[name].setter
    THEN set(facade, sh, st, fp, name, value, fails)
    ELSE Done(<<>>, sh, st, fp, IF strict THEN Throw ELSE Return(Undefined))

\* ScriptBase.prototype.indexedProperty(name, itemType)
indexedProperty(facade, sh, st, fp, name, itemType, fRaises, fRet) ==
    LET e == Ev("facade.indexedProperty", facade, name, itemType, "-", 2,
                Undefined, Outcome(fRaises), IF fRaises THEN Undefined ELSE fRet)
    IN  Done(<<e>>, sh, st, fp, IF fRaises THEN Throw ELSE Return(fRet))

\* changed notifying only for the names that have a shim
changed_IfRegistered(facade, sh, st, fp, propName, fRaises) ==
    LET e == Ev("facade.changed", facade, propName, "-", "-", 1, Undefined,
                Outcome(fRaises), Undefined)
    IN  IF sh[propName].getter
        THEN Done(<<e>>, sh, st, fp, IF fRaises THEN Throw ELSE Return(Undefined))
        ELSE Done(<<>>, sh, st, fp, Return(Undefined))

\* ScriptBase.prototype.changed(propName)
changed(facade, sh, st, fp, propName, fRaises) ==
    LET e == Ev("facade.changed", facade, propName, "-", "-", 1, Undefined,
                Outcome(fRaises), Undefined)
    IN  Done(<<e>>, sh, st, fp, IF fRaises THEN Throw ELSE Return(Undefined))

\* ScriptBase.prototype.unsubscribe(event, listener)
unsubscribe(facade, sh, st, fp, event, listener, fRaises) ==
    LET e == Ev("facade.unsubscribe", facade, event, listener, "-", 2, Undefined,
                Outcome(fRaises), Undefined)
    IN  Done(<<e>>, sh, st, fp, IF fRaises THEN Throw ELSE Return(Undefined))

Op(call, a1, a2, a3, val) ==
    [call |-> call, a1 |-> a1, a2 |-> a2, a3 |-> a3, val |-> val]

Apply(o, d) ==
    /\ op' = o
    /\ trace' = d.trace
    /\ shim' = d.shim
    /\ store' = d.store
    /\ facadeProps' = d.facadeProps
    /\ result' = d.result
    /\ UNCHANGED <<scriptFacade, metaVars, arrVars>>

Property(name, options, gs, fRaises) ==
    Apply(Op("property", name, options, gs, Undefined),
          property(scriptFacade, shim, store, facadeProps, name, options, gs,
                       fRaises))

Read(name, rRaises) ==
    /\ shim[name].getter
    /\ Apply(Op("get", name, "-", "-", Undefined),
             get(shim, store, facadeProps, name, rRaises))

\* script.name = value where the shim has a set function; fails says which
\* collaborator call raises, if any
Assign(name, value, fails) ==
    /\ shim[name].setter
    /\ Apply(Op("set", name, "-", "-", value),
             assign(scriptFacade, shim, store, facadeProps, name, value, fails,
                    TRUE))

\* script.name = value where the shim has no set function, from strict or
\* from sloppy code
AssignReadOnly(name, value, strict) ==
    /\ shim[name].getter
    /\ ~shim[name].setter
    /\ Apply(Op("set", name, "-", "-", value),
             assign(scriptFacade, shim, store, facadeProps, name, value, "none",
                    strict))

IndexedProperty(name, itemType, fRaises, fRet) ==
    Apply(Op("indexedProperty", name, itemType, "-", Undefined),
          indexedProperty(scriptFacade, shim, store, facadeProps, name,
                              itemType, fRaises, fRet))

Changed(propName, fRaises) ==
    Apply(Op("changed", propName, "-", "-", Undefined),
          changed(scriptFacade, shim, store, facadeProps, propName, fRaises))

Unsubscribe(event, listener, fRaises) ==
    Apply(Op("unsubscribe", event, listener, "-", Undefined),
          unsubscribe(scriptFacade, shim, store, facadeProps, event, listener,
                          fRaises))

ScriptBase(facade) ==
    /\ scriptFacade = facade
    /\ shim = [n \in Names |-> NoShim]
    /\ facadeProps = {}
    /\ op = Op("new", facade, "-", "-", Undefined)
    /\ trace = <<>>
    /\ result = Return(Undefined)

---------------------------------------------------------------------------
(* The metadata declarators *)

Targets   == {"ClassA", "ClassB"}
Members   == {"m1", "m2"}
NoMember  == "-"
Keys      == {"pixi:driver", "pixi:roleRequired", "pixi:min", "pixi:max",
              "pixi:resource"}
Slots     == Targets \X (Members \cup {NoMember}) \X Keys

BaseDriverTypes == {"NetworkTCP", "NetworkUDP"}
DriverMetas     == {"metaX", "metaY"}
\* two of the seven role names of RoleRequired
Roles           == {"Admin", "Spot"}
Verbs           == {"GET", "POST"}
Nums            == 0..MaxNum
NotGiven        == "undefined"

Absent == <<>>

\* Reflect.defineMetadata(key, value, target, propertyKey): the store keeps one
\* value per key, target and member; defining a key again replaces its value
DefineMetadata(m, key, value, target, propertyKey) ==
    [m EXCEPT ![<<target, propertyKey, key>>] = value]

\* const info: DriverInfo = { paramTypes: [baseDriverType], info: typeSpecificMeta }
DriverInfo(baseDriverType, typeSpecificMeta) ==
    <<baseDriverType, typeSpecificMeta>>

driver(m, baseDriverType, typeSpecificMeta, target) ==
    DefineMetadata(m, "pixi:driver", DriverInfo(baseDriverType, typeSpecificMeta),
                   target, NoMember)

roleRequired(m, role, target) ==
    DefineMetadata(m, "pixi:roleRequired", <<role>>, target, NoMember)

min(m, n, target, propertyKey) ==
    DefineMetadata(m, "pixi:min", <<n>>, target, propertyKey)

\* max writing under the key of min
max_MinKey(m, n, target, propertyKey) ==
    DefineMetadata(m, "pixi:min", <<n>>, target, propertyKey)

max(m, n, target, propertyKey) ==
    DefineMetadata(m, "pixi:max", <<n>>, target, propertyKey)

\* the info object with GET as the default verb
ResourceInfo_DefaultGet(role, verb) ==
    <<IF role = NotGiven THEN "" ELSE role,
      IF verb = NotGiven THEN "GET" ELSE verb>>

\* { auth: roleRequired || '', verb: verb || 'POST' }
ResourceInfo(role, verb) ==
    <<IF role = NotGiven THEN "" ELSE role,
      IF verb = NotGiven THEN "POST" ELSE verb>>

resource(m, role, verb, target, propertyKey) ==
    DefineMetadata(m, "pixi:resource", ResourceInfo(role, verb), target, propertyKey)

Decl(kind, target, member, a1, a2, n) ==
    [kind |-> kind, target |-> target, member |-> member, a1 |-> a1, a2 |-> a2,
     n |-> n]

ApplyDecl(d, m) ==
    /\ nDecl < MaxApply
    /\ nDecl' = nDecl + 1
    /\ decl' = d
    /\ prevMeta' = meta
    /\ meta' = m
    /\ UNCHANGED <<sbVars, arrVars>>

Driver(baseDriverType, typeSpecificMeta, target) ==
    ApplyDecl(Decl("driver", target, NoMember, baseDriverType, typeSpecificMeta, 0),
              driver(meta, baseDriverType, typeSpecificMeta, target))

RoleRequired(role, target) ==
    ApplyDecl(Decl("roleRequired", target, NoMember, role, "-", 0),
              roleRequired(meta, role, target))

Min(n, target, propertyKey) ==
    ApplyDecl(Decl("min", target, propertyKey, "-", "-", n),
              min(meta, n, target, propertyKey))

Max(n, target, propertyKey) ==
    ApplyDecl(Decl("max", target, propertyKey, "-", "-", n),
              max(meta, n, target, propertyKey))

Resource(role, verb, target, propertyKey) ==
    ApplyDecl(Decl("resource", target, propertyKey, role, verb, 0),
              resource(meta, role, verb, target, propertyKey))

NoMetadata ==
    /\ meta = [s \in Slots |-> Absent]
    /\ prevMeta = [s \in Slots |-> Absent]
    /\ decl = Decl("none", "-", "-", "-", "-", 0)
    /\ nDecl = 0

---------------------------------------------------------------------------
(* makeJSArray *)

Refs  == {"r1", "r2", "r3"}
Elems == {"a", "b"}

RECURSIVE SeqsUpTo(_)
SeqsUpTo(n) ==
    IF n = 0 THEN {<<>>}
    ELSE LET shorter == SeqsUpTo(n - 1)
         IN  shorter \cup {Append(q, e) : q \in shorter, e \in Elems}

\* an object of the heap: an array, or a host object that is array-like
\* (a length and the elements at 0..length-1)
Object(isArray, elems) == [alloc |-> TRUE, isArray |-> isArray, elems |-> elems]
Unallocated == [alloc |-> FALSE, isArray |-> FALSE, elems |-> <<>>]

Length(obj) == Len(obj.elems)
\* arr[i], with i counted from 0
At(obj, i) == obj.elems[i + 1]

Free(h) == {r \in Refs : ~h[r].alloc}
NewRef(h) == CHOOSE r \in Free(h) : TRUE

\* the copy loop putting each element in front of the result
RECURSIVE CopyLoop_Unshift(_, _, _)
CopyLoop_Unshift(arr, i, res) ==
    IF i < Length(arr) THEN CopyLoop_Unshift(arr, i + 1, <<At(arr, i)>> \o res) ELSE res

\* for (var i = 0; i < length; ++i) result.push(arr[i]);
RECURSIVE CopyLoop(_, _, _)
CopyLoop(arr, i, res) ==
    IF i < Length(arr) THEN CopyLoop(arr, i + 1, Append(res, At(arr, i))) ELSE res

\* makeJSArray without the Array.isArray test: it copies arrays too
makeJSArray_AlwaysCopy(h, arr) ==
    LET r == NewRef(h)
    IN  [heap |-> [h EXCEPT ![r] = Object(TRUE, CopyLoop(h[arr], 0, <<>>))],
         ret |-> r]

\* ScriptBase.prototype.makeJSArray(arr), on the heap h
makeJSArray(h, arr) ==
    IF h[arr].isArray
    THEN [heap |-> h, ret |-> arr]
    ELSE LET r == NewRef(h)
         IN  [heap |-> [h EXCEPT ![r] = Object(TRUE, CopyLoop(h[arr], 0, <<>>))],
              ret |-> r]

\* the host hands the script an array or an array-like object
HostProvides(isArray, elems) ==
    /\ Free(heap) # {}
    /\ heap' = [heap EXCEPT ![NewRef(heap)] = Object(isArray, elems)]
    /\ UNCHANGED <<arrCall, sbVars, metaVars>>

MakeJSArray(arr) ==
    /\ heap[arr].alloc
    /\ Free(heap) # {}
    /\ LET d == makeJSArray(heap, arr)
       IN  /\ heap' = d.heap
           /\ arrCall' = [in |-> arr, out |-> d.ret, heapBefore |-> heap,
                          heapAfter |-> d.heap]
    /\ UNCHANGED <<sbVars, metaVars>>

NoCall == [in |-> "-", out |-> "-", heapBefore |-> [r \in Refs |-> Unallocated],
           heapAfter |-> [r \in Refs |-> Unallocated]]

EmptyHeap ==
    /\ heap = [r \in Refs |-> Unallocated]
    /\ arrCall = NoCall

---------------------------------------------------------------------------
(* Specifications *)

\* the adapter, constructed on one of the facades
Init ==
    /\ \E facade \in Facades : ScriptBase(facade)
    /\ store = [gs \in Accessors |-> Num(0)]
    /\ NoMetadata
    /\ EmptyHeap

Next ==
    \/ \E name \in Names, options \in Options, gs \in Accessors, fRaises \in BOOLEAN :
          Property(name, options, gs, fRaises)
    \/ \E name \in Names, rRaises \in BOOLEAN : Read(name, rRaises)
    \/ \E name \in Names, value \in Values, fails \in Failures :
          Assign(name, value, fails)
    \/ \E name \in Names, value \in Values, strict \in BOOLEAN :
          AssignReadOnly(name, value, strict)
    \/ \E name \in Names, itemType \in ItemTypes, fRaises \in BOOLEAN, k \in 1..2 :
          IndexedProperty(name, itemType, fRaises, Obj(k))
    \/ \E propName \in Names, fRaises \in BOOLEAN : Changed(propName, fRaises)
    \/ \E event \in Events, listener \in Listeners, fRaises \in BOOLEAN :
          Unsubscribe(event, listener, fRaises)

Spec == Init /\ [][Next]_vars

InitMeta ==
    /\ ScriptBase("facadeA")
    /\ store = [gs \in Accessors |-> Num(0)]
    /\ NoMetadata
    /\ EmptyHeap

NextMeta ==
    \/ \E b \in BaseDriverTypes, t \in DriverMetas, target \in Targets :
          Driver(b, t, target)
    \/ \E role \in Roles, target \in Targets : RoleRequired(role, target)
    \/ \E n \in Nums, target \in Targets, propertyKey \in Members :
          Min(n, target, propertyKey)
    \/ \E n \in Nums, target \in Targets, propertyKey \in Members :
          Max(n, target, propertyKey)
    \/ \E role \in Roles \cup {NotGiven}, verb \in Verbs \cup {NotGiven},
          target \in Targets, propertyKey \in Members :
          Resource(role, verb, target, propertyKey)

SpecMeta == InitMeta /\ [][NextMeta]_vars

InitArr ==
    /\ ScriptBase("facadeA")
    /\ store = [gs \in Accessors |-> Num(0)]
    /\ NoMetadata
    /\ EmptyHeap

NextArr ==
    \/ \E isArray \in BOOLEAN, elems \in SeqsUpTo(MaxLen) : HostProvides(isArray, elems)
    \/ \E arr \in Refs : MakeJSArray(arr)

SpecArr == InitArr /\ [][NextArr]_vars

---------------------------------------------------------------------------
(* Properties of the adapter, checked under Spec *)

\* the positions in trace of the calls of one function
TraceCalls(call) == {i \in 1..Len(trace) : trace[i].call = call}

\* trace[i] is a call of accessor gs with no argument
IsRead(i, gs) ==
    /\ i <= Len(trace)
    /\ trace[i].call = "gsFunc" /\ trace[i].on = gs /\ trace[i].argc = 0

\* trace[i] is a call of accessor gs with the one argument v
IsWrite(i, gs, v) ==
    /\ i <= Len(trace)
    /\ trace[i].call = "gsFunc" /\ trace[i].on = gs
    /\ trace[i].argc = 1 /\ trace[i].val = v

\* the latest operation assigned to a property defined without readOnly
AssignedWritable == op.call = "set" /\ shim[op.a1].getter /\ ~shim[op.a1].ro

\* C1: an assignment to a property registered without readOnly calls the
\* accessor, and calls the facade's changed exactly when the value the accessor
\* returns for the write differs (!==) from the value it returned just before;
\* then changed is called once, on the script's facade, with the property's
\* name; when the two values are equal it is not called.
C1_NotifiesExactlyOnChange ==
    AssignedWritable =>
        LET gs    == shim[op.a1].gs
            notes == TraceCalls("facade.changed")
            wrote == IsWrite(2, gs, op.val) /\ trace[2].out = "ok"
        IN  /\ IsRead(1, gs)
            /\ trace[1].out = "ok" => IsWrite(2, gs, op.val)
            /\ IF wrote /\ ~StrictEquals(trace[1].ret, trace[2].ret)
               THEN /\ Cardinality(notes) = 1
                    /\ \A i \in notes : /\ trace[i].on = scriptFacade
                                        /\ trace[i].a1 = op.a1
                                        /\ trace[i].argc = 1
               ELSE notes = {}

\* an assignment whose write returned a different value and was notified
C1_Witness ==
    /\ AssignedWritable
    /\ result.out = "return"
    /\ Len(trace) = 3
    /\ trace[1].ret # trace[2].ret
    /\ trace[3].call = "facade.changed"

\* C6: one assignment to a read/write property calls the accessor first with
\* no argument and then with the assigned value, exactly twice when neither
\* call raises; the decision compares the two returned values, so a write that
\* returns the old value is not notified even when the assigned value differs
\* from it; a changed call comes only after the write call.
C6_ReadThenWriteThenNotify ==
    AssignedWritable =>
        LET gs == shim[op.a1].gs
        IN  /\ IsRead(1, gs)
            /\ \A i \in TraceCalls("gsFunc") : i <= 2
            /\ trace[1].out = "ok" =>
                  /\ IsWrite(2, gs, op.val)
                  /\ Cardinality(TraceCalls("gsFunc")) = 2
            /\ \A i \in TraceCalls("facade.changed") :
                  i = 3 /\ trace[1].out = "ok" /\ trace[2].out = "ok"
            /\ (/\ trace[1].out = "ok"
                /\ IsWrite(2, gs, op.val) /\ trace[2].out = "ok"
                /\ StrictEquals(trace[2].ret, trace[1].ret))
                  => TraceCalls("facade.changed") = {}
            /\ Len(trace) <= 3

\* the accessor gave back the old value for a different assigned value, and
\* nothing was notified
C6_Witness ==
    /\ AssignedWritable
    /\ result.out = "return"
    /\ Len(trace) = 2
    /\ op.val # trace[1].ret
    /\ trace[2].val = op.val
    /\ trace[2].ret = trace[1].ret

\* C4: property(name, options, accessor) calls facade.property(name, options,
\* accessor) once, first, on the script's facade, and defines the shim only
\* after that call has returned; no shim exists for a name the facade has not
\* registered.
C4_RegisterBeforeShim ==
    /\ \A n \in Names : shim[n].getter => n \in facadeProps
    /\ op.call = "property" =>
          /\ Len(trace) >= 1
          /\ trace[1] = Ev("facade.property", scriptFacade, op.a1, op.a2, op.a3, 3,
                           Undefined, trace[1].out, Undefined)
          /\ TraceCalls("facade.property") = {1}
          /\ \A i \in TraceCalls("defineProperty") :
                /\ i = 2
                /\ trace[1].out = "ok"
                /\ trace[i].a1 = op.a1
                /\ trace[i].a3 = op.a3
          /\ result.out = "return" =>
                /\ TraceCalls("defineProperty") = {2}
                /\ shim[op.a1].getter /\ shim[op.a1].gs = op.a3

\* a property call that registered and then defined its shim
C4_Witness ==
    /\ op.call = "property"
    /\ result.out = "return"
    /\ Len(trace) = 2
    /\ trace[1].call = "facade.property" /\ trace[2].call = "defineProperty"
    /\ shim[op.a1].getter

\* the latest operation is a property call whose facade.property raised
FacadeRefused ==
    /\ op.call = "property"
    /\ Len(trace) >= 1 /\ trace[1].call = "facade.property"
    /\ trace[1].out = "raise"

\* the latest operation is an assignment during which the accessor raised
AccessorRaised ==
    /\ op.call = "set"
    /\ \E i \in TraceCalls("gsFunc") : trace[i].out = "raise"

\* C7: a failure of facade.property reaches the caller of property and leaves
\* the shims as they were; a failure of the accessor during an assignment
\* reaches the caller and facade.changed is not called.
C7_FailuresPropagate ==
    /\ [](FacadeRefused =>
            /\ result.out = "throw"
            /\ TraceCalls("defineProperty") = {})
    /\ [](AccessorRaised =>
            /\ result.out = "throw"
            /\ TraceCalls("facade.changed") = {})
    /\ [][FacadeRefused' => shim' = shim]_vars

\* the facade refused a name that has no shim, and the caller got the failure
C7_Witness ==
    /\ FacadeRefused
    /\ result.out = "throw"
    /\ ~shim[op.a1].getter

\* C5: indexedProperty, changed and unsubscribe each make exactly one call, of
\* the facade method of the same name with the same arguments, on the facade
\* the constructor was given, and change nothing of the script object;
\* indexedProperty returns what the facade returned; changed notifies whatever
\* the property's value is, without calling the accessor.
C5_PassThroughs ==
    /\ [](op.call = "indexedProperty" =>
            /\ Len(trace) = 1
            /\ trace = <<Ev("facade.indexedProperty", scriptFacade, op.a1, op.a2,
                            "-", 2, Undefined, trace[1].out, trace[1].ret)>>
            /\ result = IF trace[1].out = "ok" THEN Return(trace[1].ret) ELSE Throw)
    /\ [](op.call = "changed" =>
            /\ Len(trace) = 1
            /\ trace = <<Ev("facade.changed", scriptFacade, op.a1, "-", "-", 1,
                            Undefined, trace[1].out, Undefined)>>
            /\ result = IF trace[1].out = "ok" THEN Return(Undefined) ELSE Throw)
    /\ [](op.call = "unsubscribe" =>
            /\ Len(trace) = 1
            /\ trace = <<Ev("facade.unsubscribe", scriptFacade, op.a1, op.a2, "-",
                            2, Undefined, trace[1].out, Undefined)>>
            /\ result = IF trace[1].out = "ok" THEN Return(Undefined) ELSE Throw)
    /\ [][op'.call \in {"indexedProperty", "changed", "unsubscribe"} =>
            UNCHANGED <<scriptFacade, shim, store, facadeProps>>]_vars

\* changed was called directly for a name that has no shim, and the facade
\* was notified
C5_Witness ==
    /\ op.call = "changed"
    /\ ~shim[op.a1].getter
    /\ Len(trace) = 1
    /\ trace[1].call = "facade.changed" /\ trace[1].a1 = op.a1

\* C10: a property registered with options.readOnly gets a getter and no
\* setter, so an assignment to it calls neither the accessor nor the facade and
\* changes nothing; a read of any property calls the accessor once, with no
\* argument, returns what it returned and does not call the facade.
C10_ReadOnlyAndReads ==
    /\ [](\A n \in Names : (shim[n].getter /\ shim[n].ro) => ~shim[n].setter)
    /\ []((op.call = "set" /\ shim[op.a1].ro) => trace = <<>>)
    /\ [](op.call = "get" =>
            /\ Len(trace) = 1
            /\ IsRead(1, shim[op.a1].gs)
            /\ result = IF trace[1].out = "ok" THEN Return(trace[1].ret) ELSE Throw
            /\ trace[1].out = "ok" => trace[1].ret = store[shim[op.a1].gs])
    /\ [][(op'.call = "get" \/ (op'.call = "set" /\ shim[op'.a1].ro)) =>
            UNCHANGED <<scriptFacade, shim, store, facadeProps>>]_vars

\* an assignment to a read-only property was attempted from strict code
C10_Witness ==
    /\ op.call = "set"
    /\ shim[op.a1].getter /\ shim[op.a1].ro
    /\ result.out = "throw"
    /\ trace = <<>>

---------------------------------------------------------------------------
(* Properties of the declarators, checked under SpecMeta *)

\* the slot the latest declarator application is about
DeclKey ==
    CASE decl.kind = "driver"       -> "pixi:driver"
      [] decl.kind = "roleRequired" -> "pixi:roleRequired"
      [] decl.kind = "min"          -> "pixi:min"
      [] decl.kind = "max"          -> "pixi:max"
      [] decl.kind = "resource"     -> "pixi:resource"
DeclSlot == <<decl.target, decl.member, DeclKey>>

\* the value the latest declarator application was asked to record
DeclValue ==
    CASE decl.kind = "driver"       -> <<decl.a1, decl.a2>>
      [] decl.kind = "roleRequired" -> <<decl.a1>>
      [] decl.kind = "min"          -> <<decl.n>>
      [] decl.kind = "max"          -> <<decl.n>>
      [] decl.kind = "resource"     ->
            <<IF decl.a1 = NotGiven THEN "" ELSE decl.a1,
              IF decl.a2 = NotGiven THEN "POST" ELSE decl.a2>>

\* C8 as stated: once a key is recorded for a target, no declarator
\* application changes the value stored under it.
C8_WriteOnce ==
    \A s \in Slots : prevMeta[s] # Absent => meta[s] = prevMeta[s]

\* C8 as amended: a declarator application records the value built from its
\* own arguments under its own key for its own target, replacing a value
\* recorded there before, and changes the value of no other key or target.
C8_LastWriteWins ==
    decl.kind # "none" =>
        /\ meta[DeclSlot] = DeclValue
        /\ \A s \in Slots \ {DeclSlot} : meta[s] = prevMeta[s]

\* a declarator was applied a second time to the same target with another
\* argument, and its value replaced the first
C8_Witness ==
    /\ decl.kind = "max"
    /\ prevMeta[DeclSlot] # Absent
    /\ meta[DeclSlot] # prevMeta[DeclSlot]
    /\ meta[DeclSlot] = <<decl.n>>

\* C9: the decorator of resource(roleRequired, verb) records under
\* "pixi:resource", for its target and method, the given verb or 'POST' and
\* the given role or '', and writes nothing else.
C9_ResourceInfo ==
    decl.kind = "resource" =>
        LET here == <<decl.target, decl.member, "pixi:resource">>
        IN  /\ meta[here][1] = (IF decl.a1 \in Roles THEN decl.a1 ELSE "")
            /\ meta[here][2] = (IF decl.a2 \in Verbs THEN decl.a2 ELSE "POST")
            /\ Len(meta[here]) = 2
            /\ \A s \in Slots \ {here} : meta[s] = prevMeta[s]

\* resource() with neither argument, applied to a method of a class that
\* carries other metadata
C9_Witness ==
    /\ decl.kind = "resource"
    /\ decl.a1 = NotGiven /\ decl.a2 = NotGiven
    /\ meta[<<decl.target, decl.member, "pixi:resource">>] = <<"", "POST">>
    /\ \E s \in Slots : s[3] # "pixi:resource" /\ prevMeta[s] # Absent

---------------------------------------------------------------------------
(* Properties of makeJSArray, checked under SpecArr *)

\* C2: for an array-like input that is not an array, makeJSArray returns a new
\* array of the input's length holding the input's elements in the input's
\* order, and leaves the input as it was.
C2_CopiesArrayLike ==
    (arrCall.in # "-" /\ ~arrCall.heapBefore[arrCall.in].isArray) =>
        LET input == arrCall.heapBefore[arrCall.in]
            out   == arrCall.heapAfter[arrCall.out]
            n     == Length(input)
        IN  /\ ~arrCall.heapBefore[arrCall.out].alloc
            /\ out.alloc /\ out.isArray
            /\ Length(out) = n
            /\ \A i \in 0..(n - 1) : At(out, i) = At(input, i)
            /\ \A r \in Refs \ {arrCall.out} :
                  arrCall.heapAfter[r] = arrCall.heapBefore[r]
            /\ heap[arrCall.in] = input
            /\ heap[arrCall.out] = out

\* an array-like of MaxLen elements, not all the same, was copied
C2_Witness ==
    /\ arrCall.in # "-"
    /\ ~arrCall.heapBefore[arrCall.in].isArray
    /\ Length(arrCall.heapBefore[arrCall.in]) = MaxLen
    /\ At(arrCall.heapBefore[arrCall.in], 0) # At(arrCall.heapBefore[arrCall.in], MaxLen - 1)
    /\ arrCall.out # arrCall.in
    /\ heap[arrCall.out].elems = arrCall.heapBefore[arrCall.in].elems

\* C3: given an array, makeJSArray returns that very array and touches
\* nothing; its result is always an array, so calling it on its own result
\* returns the same result again.
C3_ArrayIsReturnedAsIs ==
    arrCall.in # "-" =>
        /\ arrCall.heapBefore[arrCall.in].isArray =>
              /\ arrCall.out = arrCall.in
              /\ arrCall.heapAfter = arrCall.heapBefore
        /\ arrCall.heapAfter[arrCall.out].isArray
        /\ makeJSArray(arrCall.heapAfter, arrCall.out) =
              [heap |-> arrCall.heapAfter, ret |-> arrCall.out]

\* makeJSArray was given a non-empty array and returned it
C3_Witness ==
    /\ arrCall.in # "-"
    /\ arrCall.heapBefore[arrCall.in].isArray
    /\ Length(arrCall.heapBefore[arrCall.in]) = MaxLen
    /\ arrCall.out = arrCall.in

====
